---- MODULE Spec2Model ----
(***************************************************************************)
(* Model of the hybrid rate limiter of pkg/static_limiter/limiter.go:      *)
(* a token bucket (refillBucket) and a sliding window counter, composed by *)
(* Limiter.Allow, against a shared Redis store.                            *)
(*                                                                         *)
(* Time is counted in whole seconds.  Every store round trip of the code   *)
(* (a pipeline Exec, or a single Decr / Incr / Expire) is one step of a    *)
(* caller; every time.Now() of the code is a step of its own, so the clock *)
(* may advance, and other callers may act, between any two of them.  The   *)
(* commands of one pipeline reach the store together, as the comments of   *)
(* refillBucket have it ("atomically"), except in SpecPipe, where the      *)
(* store serves them one by one, as a pipeline without MULTI/EXEC allows.  *)
(***************************************************************************)
EXTENDS Integers, Sequences, FiniteSets, TLC

\* ------------------------------------------------------------------ bounds

\* Number of caller processes that may be inside Allow at the same time.
NumProcs == 2
\* Calls an identifier may receive beyond BucketCapacity in one behaviour.
ExtraCalls == 2
\* Number of times the clock advances in one behaviour.
MaxTicks == 2
\* Calls beyond BucketCapacity when two callers race.
RaceCalls == 3
\* Number of times the clock advances when callers race or the store fails.
FewTicks == 1
\* Number of store round trips that fail in one behaviour.
MaxFaults == 1
\* Calls beyond BucketCapacity when pipelines are taken command by command.
PipeCalls == 1
\* Calls beyond BucketCapacity of each of two identifiers called side by side.
TwoCalls == 1
\* Calls beyond BucketCapacity, and waits, of requests spread over epochs.
EpochCalls == 2
EpochTicks == 4
\* Calls beyond the capacity, and advances of the clock, of SpecEstimate.
EstimateCalls == 1
EstimateTicks == 9
\* Calls beyond the capacity, and advances of the clock, of SpecPoll.
PollCalls == 2
PollTicks == 6
\* Calls of SpecStored.
StoredCalls == 2
\* Calls beyond the capacity, and advances of the clock, of SpecBurst.
BurstCalls == 3
BurstTicks == 3
\* Requests of a stream at a constant rate.
StreamCalls == 9
\* Refill periods a call may stay in flight when time advances for ever.
LiveLag == 1
\* Calls beyond BucketCapacity that race with the caller that calls for ever.
LiveCalls == 1

\* ------------------------------------------------------- program constants

\* NewLimiter's configuration, in seconds.
DefaultBucketCapacity == 10
DefaultRefillRate == 6
DefaultSWCLimit == 100
DefaultSWCWindow == 3600
\* Expiration of the two bucket keys (time.Hour*2).
BucketTTL == 7200
\* Added to SWCWindow for the expiration of a window counter (time.Minute).
WindowGrace == 60
\* The test of the README: 12 quick requests, then 7 seconds, then 2 more.
ReadmeBurst == 12
ReadmeWait == 7
ReadmeMore == 2
\* A Set with expiration 0 leaves the key without a time to live.
NoTTL == -1

Procs == 1..NumProcs
Ids == {"u1"}

VARIABLES
    BucketCapacity,   \* Limiter.BucketCapacity
    RefillRate,       \* Limiter.RefillRate
    SWCLimit,         \* Limiter.SWCLimit
    SWCWindow,        \* Limiter.SWCWindow
    clock,            \* the wall clock read by time.Now() and by the store
    store,            \* the Redis keyspace: key -> [val, exp]
    call,             \* per process: the position and locals of its Allow call
    hist,             \* per identifier: the finished calls, in order of return
    started,          \* per identifier: number of calls begun
    maxCalls,         \* number of calls an identifier receives at most
    maxTicks,         \* number of times the clock advances at most
    ticks,            \* number of clock advances so far
    faults,           \* number of failed store round trips so far
    drainedAt,        \* per identifier: when a Decr last left the count at 0
    adaptive          \* the AdaptiveLimiter of main.go and its Monitor

\* What no step of Limiter.Allow changes: the configuration, the budgets and
\* the adaptive limiter, which is another program's.
cfg == <<BucketCapacity, RefillRate, SWCLimit, SWCWindow, maxCalls, maxTicks,
         adaptive>>
vars == <<BucketCapacity, RefillRate, SWCLimit, SWCWindow, clock, store, call,
          hist, started, maxCalls, maxTicks, ticks, faults, drainedAt, adaptive>>

\* ------------------------------------------------------------------- store

\* time.Time.Truncate(d): round down to a multiple of d.
Truncate(t, d) == t - (t % d)


\* A key that does not tell the identifiers apart.
Key_Shared(identifier, windowTime, prefix) ==
    <<prefix, "u1", Truncate(windowTime, SWCWindow)>>

\* Limiter.Key: the key of the window counter of the epoch containing windowTime.
Key(identifier, windowTime, prefix) ==
    <<prefix, identifier, Truncate(windowTime, SWCWindow)>>

bucketKeyOf(identifier) == <<"tb_tokens", identifier, 0>>
lastRefillKeyOf(identifier) == <<"tb_refill", identifier, 0>>


\* A store that never drops a key.
Purge_Never(s, t) == s

\* A key is live while it has no expiration or its expiration lies ahead.
Live(s, t) == {k \in DOMAIN s : s[k].exp = NoTTL \/ t < s[k].exp}
Purge(s, t) == [k \in Live(s, t) |-> s[k]]

\* GET: the reply of a missing key is redis.Nil, and Int64() of it is 0.
Get(s, k) == IF k \in DOMAIN s THEN [nil |-> FALSE, val |-> s[k].val]
             ELSE [nil |-> TRUE, val |-> 0]

\* A stored string that is not a number, written as a value that no count
\* and no time takes.
NotNumeric == -999999

\* Cmd.Int64() with its error dropped (limiter.go:61-62, 142-143): the number
\* the reply holds, and 0 for redis.Nil and for a string that is not a number.
Int64(reply) == IF reply.nil \/ reply.val = NotNumeric THEN 0 ELSE reply.val

\* SET key value with expiration 0: the key keeps no time to live.
Set(s, k, v) == [x \in DOMAIN s \cup {k} |->
                    IF x = k THEN [val |-> v, exp |-> NoTTL] ELSE s[x]]

\* EXPIRE key ttl at time t: only an existing key gets the expiration.
Expire(s, k, t, ttl) == IF k \in DOMAIN s
                        THEN [s EXCEPT ![k].exp = t + ttl] ELSE s

\* An increment that forgets the count the key holds.
IncrBy_Forgets(s, k, d) ==
    [x \in DOMAIN s \cup {k} |-> IF x = k THEN [val |-> d, exp |-> NoTTL] ELSE s[x]]

\* INCRBY key d (DECR is d = -1): a missing key counts from 0 and is created
\* without a time to live; an existing key keeps its expiration.
IncrBy(s, k, d) == IF k \in DOMAIN s
                   THEN [s EXCEPT ![k].val = @ + d]
                   ELSE [x \in DOMAIN s \cup {k} |->
                           IF x = k THEN [val |-> d, exp |-> NoTTL] ELSE s[x]]

\* --------------------------------------------------------- pure arithmetic


\* A division that is one short whenever the quotient is positive.
GoDiv_Short(a, b) == IF a >= b THEN (a \div b) - 1 ELSE 0

\* Go's integer division truncates toward zero.
GoDiv(a, b) == IF a >= 0 THEN a \div b ELSE -((-a) \div b)


\* A refill that rounds the elapsed periods up instead of down.
TokensToAdd_RoundUp(now, lastRefillTime) ==
    GoDiv(now - lastRefillTime + RefillRate - 1, RefillRate)

\* refillBucket, step 2: whole refill periods elapsed since lastRefillTime.
TokensToAdd(now, lastRefillTime) == GoDiv(now - lastRefillTime, RefillRate)


\* A refill without the clamp at the capacity.
ClampTokens_None(currentTokens, tokensToAdd) == currentTokens + tokensToAdd

\* A refill that fills the bucket whatever the time elapsed.
ClampTokens_Full(currentTokens, tokensToAdd) == BucketCapacity

\* refillBucket, step 3: the refilled count, clamped at the capacity.
ClampTokens(currentTokens, tokensToAdd) ==
    IF currentTokens + tokensToAdd > BucketCapacity
    THEN BucketCapacity
    ELSE currentTokens + tokensToAdd


\* A refill clock that is not advanced by the periods credited.
NewLastRefillTime_Stuck(lastRefillTime, tokensToAdd) == lastRefillTime

\* refillBucket, step 4: the refill clock advances by the periods credited.
NewLastRefillTime(lastRefillTime, tokensToAdd) ==
    lastRefillTime + tokensToAdd * RefillRate


\* An estimate that counts the previous epoch in full.
EstimatedCount_NoOverlap(previousCount, currentCount, now) ==
    previousCount + currentCount

\* The absolute value and the sign of an integer.
Abs(x) == IF x < 0 THEN -x ELSE x
Sign(x) == IF x < 0 THEN -1 ELSE IF x > 0 THEN 1 ELSE 0

\* ---- float64 in the window estimate.  A float64 has 53 significant bits,
\* more than an integer here holds, so that a significand is a sequence of
\* limbs of 13 bits, the least significant first; the last limb keeps what
\* is carried out of it.  Durations are in seconds here and in nanoseconds
\* in the code: both convert exactly to float64, and the quotient of two
\* durations is the same.  Windows are shorter than Limb seconds.
Limb == 8192

RECURSIVE Pow2(_)
Pow2(n) == IF n = 0 THEN 1 ELSE 2 * Pow2(n - 1)

\* The limbs x with carry added to the first of them.
RECURSIVE Carried(_, _)
Carried(x, carry) ==
    IF Len(x) = 1
    THEN <<x[1] + carry>>
    ELSE <<(x[1] + carry) % Limb>> \o Carried(Tail(x), (x[1] + carry) \div Limb)

\* The product of the limbs x and an integer below 2^17: one limb more.
MulSmall(x, c) ==
    Carried([i \in 1..(Len(x) + 1) |-> IF i <= Len(x) THEN x[i] * c ELSE 0], 0)

\* The limbs x without their t lowest bits, t < 13.
ShiftRight(x, t) ==
    [i \in 1..Len(x) |->
        (x[i] \div Pow2(t))
            + (IF i < Len(x) THEN (x[i + 1] % Pow2(t)) * Pow2(13 - t) ELSE 0)]

\* The binade of a / b for 0 < a < b: the least s >= 1 with a * 2^s >= b.
RECURSIVE Binade(_, _, _)
Binade(a, b, s) == IF a * Pow2(s) >= b THEN s ELSE Binade(a, b, s + 1)

\* Round to nearest, ties to even: whether a significand, odd or not, that
\* leaves the remainder rem out of unit goes up by one.
RoundsUp(rem, unit, odd) == 2 * rem > unit \/ (2 * rem = unit /\ odd)

\* float64(timeElapsedInCurrentWindow) / float64(l.SWCWindow) for
\* 0 < a < b: the quotient is k * 2^-(s + 52), where k, of 53 bits, is
\* a * 2^(s + 52) / b rounded: long division, 13 bits at a time.
Quotient(a, b) ==
    LET s  == Binade(a, b, 1)
        r0 == a * Pow2(s) - b
        r1 == (r0 * Limb) % b
        r2 == (r1 * Limb) % b
        r3 == (r2 * Limb) % b
        r4 == (r3 * Limb) % b
        d  == <<(r3 * Limb) \div b, (r2 * Limb) \div b,
                (r1 * Limb) \div b, (r0 * Limb) \div b, 1>>
    IN  [s |-> s,
         k |-> Carried(d, IF RoundsUp(r4, b, d[1] % 2 = 1) THEN 1 ELSE 0)]

\* overlap := 1.0 - q: the difference is 1 - g * 2^-53, where g is k
\* without its s - 1 lowest bits, rounded the way the difference rounds (it
\* is in [1/2, 1] when s > 1 and exact when s = 1).
Overlap(q) ==
    LET t    == q.s - 1
        low  == q.k[1] % Pow2(t)
        kh   == ShiftRight(q.k, t)
    IN  Carried(kh, IF RoundsUp(low, Pow2(t), kh[1] % 2 = 1) THEN 1 ELSE 0)

\* The exponent of a float64 m >= 1.
RECURSIVE Exponent(_)
Exponent(m) == IF m < 2 THEN 0 ELSE 1 + Exponent(m \div 2)

\* int64(float64(previousCount) * overlap) for 0 <= previousCount < 2^17 and
\* overlap = 1 - g * 2^-53.  The product is previousCount - G * 2^-53 with
\* G = previousCount * g; it rounds up to the next integer when it is
\* within half a unit in the last place below it, and int64() truncates.
TruncatedProduct(previousCount, g) ==
    LET G    == MulSmall(g, previousCount)
        Gh   == (G[5] \div 2) + G[6] * (Limb \div 2)
        Glow == G[1] + G[2] * Limb
        tiny == G[3] = 0 /\ G[4] = 0 /\ G[5] % 2 = 0
        m0   == previousCount - Gh - 1
    IN  IF tiny /\ Glow = 0 THEN previousCount - Gh
        ELSE IF m0 >= 1 /\ tiny /\ Glow <= Pow2(Exponent(m0)) THEN m0 + 1
        ELSE m0

\* Allow: int64(float64(previousCount)*overlap) + currentCount, with
\* overlap = 1.0 - float64(timeElapsedInCurrentWindow)/float64(SWCWindow),
\* computed as float64 computes it.  A negative count gives the product of
\* its absolute value, negated.
EstimatedCount(previousCount, currentCount, now) ==
    LET timeElapsedInCurrentWindow == now - Truncate(now, SWCWindow)
    IN  IF timeElapsedInCurrentWindow = 0    \* overlap = 1.0, an exact product
        THEN previousCount + currentCount
        ELSE Sign(previousCount)
                 * TruncatedProduct(Abs(previousCount),
                       Overlap(Quotient(timeElapsedInCurrentWindow, SWCWindow)))
               + currentCount


\* A burst gate that is off by one: a count of 0 still passes.
HasToken_OffByOne(currentTokens) == ~(currentTokens < 0)

\* Allow, check 1: the burst gate.
HasToken(currentTokens) == ~(currentTokens < 1)


\* A sustained-rate gate that lets an estimate equal to the limit pass.
UnderLimit_Inclusive(estimatedCount) == estimatedCount <= SWCLimit

\* Allow, final decision: the sustained-rate gate.
UnderLimit(estimatedCount) == estimatedCount < SWCLimit

\* ------------------------------------------------------------- float64
\* A float64 is written as a fraction [n, d] in lowest terms with d >= 0: a
\* number when d > 0, +Inf as 1/0, -Inf as -1/0 and NaN as 0/0.  Rounding is
\* left out; zero has no sign.

RECURSIVE Gcd(_, _)
Gcd(a, b) == IF b = 0 THEN a ELSE Gcd(b, a % b)


\* The float64 of the fraction n / d.
Float(n, d) ==
    IF d = 0 THEN [n |-> Sign(n), d |-> 0]
    ELSE LET g == Gcd(Abs(n), Abs(d))
         IN  [n |-> Sign(d) * (n \div g), d |-> Abs(d) \div g]

NaN == [n |-> 0, d |-> 0]
IsNaN(a) == a.d = 0 /\ a.n = 0

\* a / b for a finite a: a number, an infinity for b = 0, NaN for 0 / 0 and
\* for b = NaN, 0 for an infinite b.
FloatDiv(a, b) == Float(a.n * b.d, a.d * b.n)

\* a * b for finite a and b, and NaN if one of them is NaN.
FloatMul(a, b) == Float(a.n * b.n, a.d * b.d)

\* a < b: false as soon as one of them is NaN.
FloatLess(a, b) ==
    /\ ~IsNaN(a)
    /\ ~IsNaN(b)
    /\ IF a.d = 0 /\ b.d = 0 THEN a.n < b.n
       ELSE IF a.d = 0 THEN a.n < 0
       ELSE IF b.d = 0 THEN b.n > 0
       ELSE a.n * b.d < b.n * a.d

\* ---------------------------------------------------- adaptive limiter

\* main.go: const BaseRPS = 100.0.
BaseRPS == Float(100, 1)

\* calculateFactor's targets (monitor.go:53-55).
TargetCPU == Float(70, 100)
TargetLatency == Float(500, 1)
TargetErrorRate == Float(1, 100)

\* The bounds of the factor (monitor.go:73-79).
MaxFactor == Float(1, 1)
MinFactor == Float(1, 10)

\* min of monitor.go:84-93.
min(a, b, c) ==
    LET m1 == IF FloatLess(b, a) THEN b ELSE a
    IN  IF FloatLess(c, m1) THEN c ELSE m1

\* calculateFactor (monitor.go:51-82).
calculateFactor(data) ==
    LET cpuFactor == FloatDiv(TargetCPU, data.CPUUtilization)
        latencyFactor == FloatDiv(TargetLatency, data.P95LatencyMs)
        errorFactor == FloatDiv(TargetErrorRate, data.ErrorRate)
        factor == min(cpuFactor, latencyFactor, errorFactor)
    IN  IF FloatLess(MaxFactor, factor) THEN MaxFactor
        ELSE IF FloatLess(factor, MinFactor) THEN MinFactor
        ELSE factor

\* NewAdaptiveLimiter (adaptive/limiter.go:17-24): the rate starts at the
\* base limit.  The factor last applied and the health data last fetched are
\* kept with it, and whether the last fetch returned an error; before the
\* first tick of the monitor there are none, which is written as the factor 1,
\* as data that meet the targets and as no error.
NewAdaptiveLimiter(baseLimit) ==
    [BaseLimit |-> baseLimit, limit |-> baseLimit, factor |-> MaxFactor,
     healthData |-> [CPUUtilization |-> TargetCPU,
                     P95LatencyMs |-> TargetLatency,
                     ErrorRate |-> TargetErrorRate],
     fetchErr |-> FALSE]

\* AdaptiveLimiter.UpdateFactor (adaptive/limiter.go:35-43).
UpdateFactor(l, factor) ==
    [l EXCEPT !.limit = FloatMul(l.BaseLimit, factor), !.factor = factor]

\* ------------------------------------------------------------ call records

NilReply == [nil |-> TRUE, val |-> 0]

\* A process outside Allow.
Idle == [pc |-> "idle", identifier |-> "", begin |-> 0,
         currentTokensCmd |-> NilReply, lastRefillTimeCmd |-> NilReply,
         newTokens |-> 0, newLastRefillTime |-> 0,
         now |-> 0, estimatedCount |-> 0,
         ret |-> FALSE, failed |-> "", trace |-> <<>>]

\* The store round trips a call has issued so far are kept in trace.
Issue(c, op) == [c EXCEPT !.trace = Append(@, op)]

\* Allow returns r.
Returned(c, r) == [c EXCEPT !.pc = "done", !.ret = r]

\* Tokens persisted for an identifier, as a set: empty when the key is missing.
TokensOf(identifier) ==
    {store[k].val : k \in {bucketKeyOf(identifier)} \cap DOMAIN store}

\* ----------------------------------------------------------------- actions

\* A caller enters Allow(identifier) (limiter.go:107-110).
Begin(p, identifier) ==
    /\ call[p].pc = "idle"
    /\ started[identifier] < maxCalls
    /\ call' = [call EXCEPT ![p] = [Idle EXCEPT !.pc = "refillGet",
                                               !.identifier = identifier,
                                               !.begin = clock]]
    /\ started' = [started EXCEPT ![identifier] = @ + 1]
    /\ UNCHANGED <<cfg, clock, store, hist, ticks, faults, drainedAt>>

\* refillBucket, step 1 (limiter.go:51-57): the pipelined read of the token
\* count and of the last refill time.
RefillGet(p) ==
    /\ call[p].pc = "refillGet"
    /\ LET c == call[p]
       IN  call' = [call EXCEPT ![p] =
                [Issue(c, "tbGet") EXCEPT
                    !.pc = "refillNow",
                    !.currentTokensCmd = Get(store, bucketKeyOf(c.identifier)),
                    !.lastRefillTimeCmd =
                        Get(store, lastRefillKeyOf(c.identifier))]]
    /\ UNCHANGED <<cfg, clock, store, hist, started, ticks, faults, drainedAt>>


\* A failure after which the call stays where it is and issues the round trip
\* again.
FailOpen_Retry(c, op) == [Issue(c, op) EXCEPT !.failed = op]

\* What Allow does when a store round trip it looks at has failed
\* (limiter.go:113-116, 137-140): it returns true.
FailOpen(c, op) == [Returned(Issue(c, op), TRUE) EXCEPT !.failed = op]

\* The read pipeline fails: Exec returns an error other than redis.Nil,
\* refillBucket returns it (limiter.go:55-57).
RefillGetFails(p) ==
    /\ call[p].pc = "refillGet"
    /\ faults < MaxFaults
    /\ faults' = faults + 1
    /\ call' = [call EXCEPT ![p] = FailOpen(@, "tbGet")]
    /\ UNCHANGED <<cfg, clock, store, hist, started, ticks, drainedAt>>

\* refillBucket, steps 2-4 (limiter.go:59-86): now := time.Now(), the initial
\* state of a missing key, the tokens to add, the clamp, the new refill time.
RefillCompute(p) ==
    /\ call[p].pc = "refillNow"
    /\ LET c == call[p]
           currentTokens == IF c.currentTokensCmd.nil THEN BucketCapacity
                            ELSE Int64(c.currentTokensCmd)
           lastRefillTime == IF c.lastRefillTimeCmd.nil THEN clock
                             ELSE Int64(c.lastRefillTimeCmd)
           tokensToAdd == TokensToAdd(clock, lastRefillTime)
       IN  call' = [call EXCEPT ![p] =
                [c EXCEPT !.pc = "refillSet",
                          !.now = clock,
                          !.newTokens = ClampTokens(currentTokens, tokensToAdd),
                          !.newLastRefillTime =
                              NewLastRefillTime(lastRefillTime, tokensToAdd)]]
    /\ UNCHANGED <<cfg, clock, store, hist, started, ticks, faults, drainedAt>>


\* A refill that already takes the token of the call it serves.
RefillWritten_Consumes(s, identifier, newTokens, newLastRefillTime, t) ==
    LET s1 == Set(s, bucketKeyOf(identifier), newTokens - 1)
        s2 == Set(s1, lastRefillKeyOf(identifier), newLastRefillTime)
        s3 == Expire(s2, bucketKeyOf(identifier), t, BucketTTL)
    IN  Expire(s3, lastRefillKeyOf(identifier), t, BucketTTL)

\* The store after the write pipeline of refillBucket (limiter.go:89-97):
\* both keys set, both given the expiration of two hours.
RefillWritten(s, identifier, newTokens, newLastRefillTime, t) ==
    LET s1 == Set(s, bucketKeyOf(identifier), newTokens)
        s2 == Set(s1, lastRefillKeyOf(identifier), newLastRefillTime)
        s3 == Expire(s2, bucketKeyOf(identifier), t, BucketTTL)
    IN  Expire(s3, lastRefillKeyOf(identifier), t, BucketTTL)

\* drainedAt once the refill of call record c is in the store: a count that is
\* not 0 ends the drained state.
RefillDrained(c) ==
    [drainedAt EXCEPT ![c.identifier] = IF c.newTokens = 0 THEN @ ELSE -1]

\* refillBucket, step 5 (limiter.go:89-103) and the burst gate of Allow
\* (limiter.go:112-121).
RefillSet(p) ==
    /\ call[p].pc = "refillSet"
    /\ LET c == call[p]
       IN  /\ store' = RefillWritten(store, c.identifier, c.newTokens,
                                     c.newLastRefillTime, clock)
           /\ drainedAt' = RefillDrained(c)
           /\ call' = [call EXCEPT ![p] =
                 IF HasToken(c.newTokens)
                 THEN [Issue(c, "tbSet") EXCEPT !.pc = "swcNow"]
                 ELSE Returned(Issue(c, "tbSet"), FALSE)]
    /\ UNCHANGED <<cfg, clock, hist, started, ticks, faults>>

\* The write pipeline fails (limiter.go:97-100): the writes may or may not
\* have reached the store; refillBucket returns the error.
RefillSetFails(p) ==
    /\ call[p].pc = "refillSet"
    /\ faults < MaxFaults
    /\ faults' = faults + 1
    /\ LET c == call[p]
       IN  /\ \/ /\ store' = RefillWritten(store, c.identifier, c.newTokens,
                                           c.newLastRefillTime, clock)
                 /\ drainedAt' = RefillDrained(c)
              \/ UNCHANGED <<store, drainedAt>>
           /\ call' = [call EXCEPT ![p] = FailOpen(c, "tbSet")]
    /\ UNCHANGED <<cfg, clock, hist, started, ticks>>

\* Allow, check 2 (limiter.go:124-130): now := time.Now(); the two window keys
\* and the overlap are functions of it.
WindowNow(p) ==
    /\ call[p].pc = "swcNow"
    /\ call' = [call EXCEPT ![p] = [@ EXCEPT !.pc = "swcGet", !.now = clock]]
    /\ UNCHANGED <<cfg, clock, store, hist, started, ticks, faults, drainedAt>>

\* Allow (limiter.go:133-149, 165-170): the pipelined read of the two window
\* counters, the estimate and the final decision.
WindowGet(p) ==
    /\ call[p].pc = "swcGet"
    /\ LET c == call[p]
           currentCount ==
               Int64(Get(store, Key(c.identifier, c.now, "swc_count")))
           previousCount ==
               Int64(Get(store, Key(c.identifier, c.now - SWCWindow, "swc_count")))
           estimatedCount == EstimatedCount(previousCount, currentCount, c.now)
       IN  call' = [call EXCEPT ![p] =
                IF UnderLimit(estimatedCount)
                THEN [Issue(c, "swcGet") EXCEPT
                         !.pc = "decr", !.estimatedCount = estimatedCount]
                ELSE [Returned(Issue(c, "swcGet"), FALSE) EXCEPT
                         !.estimatedCount = estimatedCount]]
    /\ UNCHANGED <<cfg, clock, store, hist, started, ticks, faults, drainedAt>>

\* The read of the window counters fails (limiter.go:136-140).
WindowGetFails(p) ==
    /\ call[p].pc = "swcGet"
    /\ faults < MaxFaults
    /\ faults' = faults + 1
    /\ call' = [call EXCEPT ![p] = FailOpen(@, "swcGet")]
    /\ UNCHANGED <<cfg, clock, store, hist, started, ticks, drainedAt>>

\* Allow, commit 1 (limiter.go:153): Decr of the token key.
Decr(p) ==
    /\ call[p].pc = "decr"
    /\ LET c == call[p]
           decremented == IncrBy(store, bucketKeyOf(c.identifier), -1)
       IN  /\ store' = decremented
           /\ drainedAt' = [drainedAt EXCEPT ![c.identifier] =
                 IF decremented[bucketKeyOf(c.identifier)].val = 0
                 THEN clock ELSE -1]
           /\ call' = [call EXCEPT ![p] = [Issue(c, "decr") EXCEPT !.pc = "incr"]]
    /\ UNCHANGED <<cfg, clock, hist, started, ticks, faults>>

\* Allow, commit 2 (limiter.go:156): Incr of the current window counter.
Incr(p) ==
    /\ call[p].pc = "incr"
    /\ LET c == call[p]
       IN  /\ store' = IncrBy(store, Key(c.identifier, c.now, "swc_count"), 1)
           /\ call' = [call EXCEPT ![p] = [Issue(c, "incr") EXCEPT !.pc = "expire"]]
    /\ UNCHANGED <<cfg, clock, hist, started, ticks, faults, drainedAt>>

\* Allow, commit 3 (limiter.go:159-163): Expire of the current window counter,
\* then return true.
ExpireWindow(p) ==
    /\ call[p].pc = "expire"
    /\ LET c == call[p]
       IN  /\ store' = Expire(store, Key(c.identifier, c.now, "swc_count"),
                              clock, SWCWindow + WindowGrace)
           /\ call' = [call EXCEPT ![p] = Returned(Issue(c, "expire"), TRUE)]
    /\ UNCHANGED <<cfg, clock, hist, started, ticks, faults, drainedAt>>

\* A commit command fails (limiter.go:153-159): Allow does not look at the
\* reply of Decr, Incr or Expire, so the store is left as it was and the call
\* goes on to its next command, or to return true after the last.
CommitFails(p) ==
    /\ call[p].pc \in {"decr", "incr", "expire"}
    /\ faults < MaxFaults
    /\ faults' = faults + 1
    /\ LET c == call[p]
       IN  call' = [call EXCEPT ![p] =
                IF c.pc = "decr" THEN [Issue(c, "decr") EXCEPT !.pc = "incr"]
                ELSE IF c.pc = "incr" THEN [Issue(c, "incr") EXCEPT !.pc = "expire"]
                ELSE Returned(Issue(c, "expire"), TRUE)]
    /\ UNCHANGED <<cfg, clock, store, hist, started, ticks, drainedAt>>

\* The caller has the result of Allow; the call is added to the history.
Return(p) ==
    /\ call[p].pc = "done"
    /\ hist' = [hist EXCEPT ![call[p].identifier] =
            Append(@, [ret |-> call[p].ret, failed |-> call[p].failed # "",
                       begin |-> call[p].begin, end |-> clock])]
    /\ call' = [call EXCEPT ![p] = Idle]
    /\ UNCHANGED <<cfg, clock, store, started, ticks, faults, drainedAt>>

\* The waits of the environment: a second, a refill period, the life of the
\* bucket keys.
Deltas == {1, RefillRate, BucketTTL}

\* Time passes; the store drops the keys whose expiration has come.
Tick(d) ==
    /\ ticks < maxTicks
    /\ ticks' = ticks + 1
    /\ clock' = clock + d
    /\ store' = Purge(store, clock + d)
    /\ UNCHANGED <<cfg, call, hist, started, faults, drainedAt>>

\* Time passes between two calls, none being in flight.
Wait(d) ==
    /\ \A p \in Procs : call[p].pc = "idle"
    /\ Tick(d)

\* One step of the Allow call of process p, the store answering.
Step(p) ==
    \/ \E identifier \in Ids : Begin(p, identifier)
    \/ RefillGet(p)
    \/ RefillCompute(p)
    \/ RefillSet(p)
    \/ WindowNow(p)
    \/ WindowGet(p)
    \/ Decr(p)
    \/ Incr(p)
    \/ ExpireWindow(p)
    \/ Return(p)

\* One step of the Allow call of process p, the store failing.
Fault(p) ==
    \/ RefillGetFails(p)
    \/ RefillSetFails(p)
    \/ WindowGetFails(p)
    \/ CommitFails(p)

\* ------------------------------------- pipelines, command by command
\* Client.Pipeline() of go-redis v8 (go.mod:6) sends the queued commands in
\* one round trip without MULTI/EXEC, so the store may serve the commands of
\* other callers between any two of them.  The actions below take the two
\* pipelines of refillBucket one command at a time.

\* refillBucket, step 1, first command (limiter.go:52): GET of the token count.
PipeGetTokens(p) ==
    /\ call[p].pc = "refillGet"
    /\ LET c == call[p]
       IN  call' = [call EXCEPT ![p] =
                [Issue(c, "tbGet") EXCEPT
                    !.pc = "refillGet2",
                    !.currentTokensCmd = Get(store, bucketKeyOf(c.identifier))]]
    /\ UNCHANGED <<cfg, clock, store, hist, started, ticks, faults, drainedAt>>

\* refillBucket, step 1, second command (limiter.go:53-54): GET of the last
\* refill time; Exec returns.
PipeGetLastRefill(p) ==
    /\ call[p].pc = "refillGet2"
    /\ LET c == call[p]
       IN  call' = [call EXCEPT ![p] =
                [c EXCEPT !.pc = "refillNow",
                          !.lastRefillTimeCmd =
                              Get(store, lastRefillKeyOf(c.identifier))]]
    /\ UNCHANGED <<cfg, clock, store, hist, started, ticks, faults, drainedAt>>

\* refillBucket, step 5, first command (limiter.go:90): SET of the token count.
PipeSetTokens(p) ==
    /\ call[p].pc = "refillSet"
    /\ LET c == call[p]
       IN  /\ store' = Set(store, bucketKeyOf(c.identifier), c.newTokens)
           /\ drainedAt' = RefillDrained(c)
           /\ call' = [call EXCEPT ![p] =
                          [Issue(c, "tbSet") EXCEPT !.pc = "refillSet2"]]
    /\ UNCHANGED <<cfg, clock, hist, started, ticks, faults>>

\* refillBucket, step 5, second command (limiter.go:91): SET of the last
\* refill time.
PipeSetLastRefill(p) ==
    /\ call[p].pc = "refillSet2"
    /\ LET c == call[p]
       IN  /\ store' = Set(store, lastRefillKeyOf(c.identifier),
                           c.newLastRefillTime)
           /\ call' = [call EXCEPT ![p] = [c EXCEPT !.pc = "refillExpire"]]
    /\ UNCHANGED <<cfg, clock, hist, started, ticks, faults, drainedAt>>

\* refillBucket, step 5, third command (limiter.go:94): EXPIRE of the token
\* key.
PipeExpireTokens(p) ==
    /\ call[p].pc = "refillExpire"
    /\ LET c == call[p]
       IN  /\ store' = Expire(store, bucketKeyOf(c.identifier), clock, BucketTTL)
           /\ call' = [call EXCEPT ![p] = [c EXCEPT !.pc = "refillExpire2"]]
    /\ UNCHANGED <<cfg, clock, hist, started, ticks, faults, drainedAt>>

\* refillBucket, step 5, last command (limiter.go:95-103): EXPIRE of the last
\* refill key; Exec returns, and Allow applies the burst gate
\* (limiter.go:112-121).
PipeExpireLastRefill(p) ==
    /\ call[p].pc = "refillExpire2"
    /\ LET c == call[p]
       IN  /\ store' = Expire(store, lastRefillKeyOf(c.identifier), clock,
                              BucketTTL)
           /\ call' = [call EXCEPT ![p] =
                 IF HasToken(c.newTokens)
                 THEN [c EXCEPT !.pc = "swcNow"]
                 ELSE Returned(c, FALSE)]
    /\ UNCHANGED <<cfg, clock, hist, started, ticks, faults, drainedAt>>

\* One step of the Allow call of process p, the store serving the commands of
\* refillBucket's pipelines one by one.
StepPipe(p) ==
    \/ \E identifier \in Ids : Begin(p, identifier)
    \/ PipeGetTokens(p)
    \/ PipeGetLastRefill(p)
    \/ RefillCompute(p)
    \/ PipeSetTokens(p)
    \/ PipeSetLastRefill(p)
    \/ PipeExpireTokens(p)
    \/ PipeExpireLastRefill(p)
    \/ WindowNow(p)
    \/ WindowGet(p)
    \/ Decr(p)
    \/ Incr(p)
    \/ ExpireWindow(p)
    \/ Return(p)

\* ------------------------------------------------ time without an end
\* Allow depends on the clock only through differences of times and through
\* Truncate(now, SWCWindow), so moving every time of a state back by a
\* multiple of SWCWindow gives a state that behaves alike.  A behaviour in
\* which time advances for ever is kept within finitely many states by
\* moving the clock back into the second epoch after each advance.

\* A window counter's key, k seconds (a multiple of SWCWindow) earlier.
ShiftKey(key, k) ==
    IF key[1] = "swc_count" THEN <<key[1], key[2], key[3] - k>> ELSE key

\* The store, k seconds earlier: the epochs of the window counters, the
\* stored last refill times and the expirations.
ShiftStore(s, k) ==
    [key \in {ShiftKey(x, k) : x \in DOMAIN s} |->
        LET x == CHOOSE y \in DOMAIN s : ShiftKey(y, k) = key
        IN  [val |-> IF x[1] = "tb_refill" THEN s[x].val - k ELSE s[x].val,
             exp |-> IF s[x].exp = NoTTL THEN NoTTL ELSE s[x].exp - k]]

\* A call record, k seconds earlier: the times it holds so far.
ShiftCall(c, k) ==
    IF c.pc = "idle" THEN c
    ELSE [c EXCEPT
            !.begin = @ - k,
            !.lastRefillTimeCmd =
                IF @.nil THEN @ ELSE [nil |-> FALSE, val |-> @.val - k],
            !.now = IF c.pc \in {"refillGet", "refillNow"} THEN @ ELSE @ - k,
            !.newLastRefillTime =
                IF c.pc \in {"refillGet", "refillNow"} THEN @ ELSE @ - k]

\* Time passes by d, no call staying in flight for longer than LiveLag refill
\* periods; the store drops the keys whose expiration has come.  The state is
\* then taken k seconds earlier, which puts the clock in the second epoch.
TickLive(d) ==
    /\ \A p \in Procs :
          call[p].pc # "idle" => clock + d - call[p].begin <= LiveLag * RefillRate
    /\ LET k == Truncate(clock + d, SWCWindow) - SWCWindow
       IN  /\ clock' = clock + d - k
           /\ store' = ShiftStore(Purge(store, clock + d), k)
           /\ call' = [p \in Procs |-> ShiftCall(call[p], k)]
    /\ ticks' = maxTicks
    /\ drainedAt' = [i \in Ids |-> -1]
    /\ UNCHANGED <<cfg, hist, started, faults>>

\* The caller has the result of Allow; no history is kept.  Caller 1 calls
\* again and again: its calls are not counted once they have returned.
Leave(p) ==
    /\ call[p].pc = "done"
    /\ started' = [started EXCEPT ![call[p].identifier] =
                      IF p = 1 THEN @ - 1 ELSE @]
    /\ call' = [call EXCEPT ![p] = Idle]
    /\ UNCHANGED <<cfg, clock, store, hist, ticks, faults, drainedAt>>

\* One step of a caller: caller 1 calls Allow for ever, the other callers
\* race with it for a number of calls and leave it a call of its own.
StepLive(p) ==
    \/ \E identifier \in Ids :
          /\ p = 1 \/ started[identifier] < maxCalls - 1
          /\ Begin(p, identifier)
    \/ RefillGet(p)
    \/ RefillCompute(p)
    \/ RefillSet(p)
    \/ WindowNow(p)
    \/ WindowGet(p)
    \/ Decr(p)
    \/ Incr(p)
    \/ ExpireWindow(p)
    \/ Leave(p)

\* ------------------------------------------------------------ monitor

\* Values a health metric may take: NaN, zero, half its target, its target,
\* twice and twenty times its target, a negative value and +Inf.
MetricValues(target) ==
    {NaN, Float(0, 1), FloatMul(target, Float(1, 2)), target,
     FloatMul(target, Float(2, 1)), FloatMul(target, Float(20, 1)),
     Float(-1, 1), Float(1, 0)}

HealthInputs ==
    [CPUUtilization : MetricValues(TargetCPU),
     P95LatencyMs : MetricValues(TargetLatency),
     ErrorRate : MetricValues(TargetErrorRate)]

\* One tick of Monitor.StartMonitoring (monitor.go:30-43) with a fetch that
\* succeeds: the factor is calculated from the data and applied.
MonitorTick(healthData) ==
    /\ adaptive' = [UpdateFactor(adaptive, calculateFactor(healthData))
                       EXCEPT !.healthData = healthData, !.fetchErr = FALSE]
    /\ UNCHANGED <<BucketCapacity, RefillRate, SWCLimit, SWCWindow, maxCalls,
                   maxTicks, clock, store, call, hist, started, ticks, faults,
                   drainedAt>>

\* What PrometheusSource.FetchMetrics returns with an error (real.go:73-93):
\* the metrics of the queries before the one that failed, and 0 for the rest.
FailedFetches ==
    {d \in HealthInputs :
        /\ d.ErrorRate = Float(0, 1)
        /\ d.CPUUtilization = Float(0, 1) => d.P95LatencyMs = Float(0, 1)}


\* A monitor that does not look at the error and applies what the fetch
\* returned with it.
FetchFailed_Applies(l, healthData) ==
    [UpdateFactor(l, calculateFactor(healthData))
        EXCEPT !.healthData = healthData, !.fetchErr = TRUE]

\* The limiter and its monitor after a fetch that returned an error
\* (monitor.go:32-36): the loop goes on to the next tick, UpdateFactor is not
\* called.
FetchFailed(l, healthData) ==
    [l EXCEPT !.healthData = healthData, !.fetchErr = TRUE]

\* One tick of Monitor.StartMonitoring (monitor.go:30-36) with a fetch that
\* fails.
MonitorFetchFails(healthData) ==
    /\ adaptive' = FetchFailed(adaptive, healthData)
    /\ UNCHANGED <<BucketCapacity, RefillRate, SWCLimit, SWCWindow, maxCalls,
                   maxTicks, clock, store, call, hist, started, ticks, faults,
                   drainedAt>>

\* ---------------------------------------------------------- specifications

\* Configurations <<BucketCapacity, RefillRate, SWCLimit, SWCWindow>> small
\* enough to be explored: a window limit above, at and below the capacity,
\* and a refill period as long as the life of the bucket keys.
SmallConfigs == {<<1, 2, 4, 4>>, <<2, 2, 2, 4>>, <<2, 3, 3, 6>>, <<2, 2, 1, 4>>,
                 <<2, 7200, 3, 4>>}

\* Configurations for two callers that race on one identifier.
RaceConfigs == {<<1, 2, 4, 4>>}

\* Configurations for a store that may fail.
FaultConfigs == {<<1, 2, 4, 4>>, <<2, 2, 2, 4>>}

\* NewLimiter (limiter.go:26-38).
NewLimiter == <<DefaultBucketCapacity, DefaultRefillRate,
                DefaultSWCLimit, DefaultSWCWindow>>

\* The state after construction under configuration c, with n calls and t
\* advances of the clock to come: an empty store, every process outside Allow; the clock starts at, or a second
\* before, the start of an epoch.
InitWith(c, n, t) ==
    /\ BucketCapacity = c[1]
    /\ RefillRate = c[2]
    /\ SWCLimit = c[3]
    /\ SWCWindow = c[4]
    /\ maxCalls = n
    /\ maxTicks = t
    /\ clock \in {c[4], 2 * c[4] - 1}
    /\ store = <<>>
    /\ call = [p \in Procs |-> Idle]
    /\ hist = [i \in Ids |-> <<>>]
    /\ started = [i \in Ids |-> 0]
    /\ ticks = 0
    /\ faults = 0
    /\ drainedAt = [i \in Ids |-> -1]
    /\ adaptive = NewAdaptiveLimiter(BaseRPS)

Init == \E c \in RaceConfigs : InitWith(c, c[1] + RaceCalls, FewTicks)

Next ==
    \/ \E p \in Procs : Step(p)
    \/ \E d \in Deltas : Tick(d)

\* Concurrent callers, a store that answers.
Spec == Init /\ [][Next]_vars

InitSeq == \E c \in SmallConfigs : InitWith(c, c[1] + ExtraCalls, MaxTicks)

NextSeq ==
    \/ Step(1)
    \/ \E d \in Deltas : Tick(d)

\* One caller, so that the calls of an identifier never overlap, and a store
\* that answers.
SpecSeq == InitSeq /\ [][NextSeq]_vars

InitFaulty == \E c \in FaultConfigs : InitWith(c, c[1] + ExtraCalls, FewTicks)

NextFaulty ==
    \/ Step(1)
    \/ Fault(1)
    \/ \E d \in Deltas : Tick(d)

\* One caller and a store that may fail.
SpecFaulty == InitFaulty /\ [][NextFaulty]_vars

InitReadme == InitWith(NewLimiter, ReadmeBurst + ReadmeMore, MaxTicks)

NextReadme ==
    \/ Step(1)
    \/ \E d \in {1, RefillRate, ReadmeWait} : Wait(d)

\* The test of the README: NewLimiter's configuration, one client that sends
\* its requests one after the other and waits between them.
SpecReadme == InitReadme /\ [][NextReadme]_vars

InitPipe == \E c \in RaceConfigs : InitWith(c, c[1] + PipeCalls, FewTicks)

NextPipe ==
    \/ \E p \in Procs : StepPipe(p)
    \/ \E d \in Deltas : Tick(d)

\* Concurrent callers, a store that answers and serves the commands of a
\* pipeline one by one.
SpecPipe == InitPipe /\ [][NextPipe]_vars

\* Two identifiers, each with a caller of its own.
TwoIds == {"u1", "u2"}
IdOf(p) == IF p = 1 THEN "u1" ELSE "u2"
TwoCallers == {1, 2}

\* One step of caller p, which calls Allow(IdOf(p)) only.
StepTwo(p) ==
    \/ Begin(p, IdOf(p))
    \/ RefillGet(p)
    \/ RefillCompute(p)
    \/ RefillSet(p)
    \/ WindowNow(p)
    \/ WindowGet(p)
    \/ Decr(p)
    \/ Incr(p)
    \/ ExpireWindow(p)
    \/ Return(p)

\* Configurations for two identifiers: a window limit above the capacity and
\* one equal to it.
TwoConfigs == {<<1, 2, 4, 4>>, <<2, 2, 2, 4>>}

\* The state after construction, as InitWith has it, for two identifiers.
InitTwo ==
    \E c \in TwoConfigs :
        /\ BucketCapacity = c[1]
        /\ RefillRate = c[2]
        /\ SWCLimit = c[3]
        /\ SWCWindow = c[4]
        /\ maxCalls = c[1] + TwoCalls
        /\ maxTicks = FewTicks
        /\ clock \in {c[4], 2 * c[4] - 1}
        /\ store = <<>>
        /\ call = [p \in Procs |-> Idle]
        /\ hist = [i \in TwoIds |-> <<>>]
        /\ started = [i \in TwoIds |-> 0]
        /\ ticks = 0
        /\ faults = 0
        /\ drainedAt = [i \in TwoIds |-> -1]
        /\ adaptive = NewAdaptiveLimiter(BaseRPS)

NextTwo ==
    \/ \E p \in TwoCallers : StepTwo(p)
    \/ \E d \in Deltas : Tick(d)

\* Two identifiers called side by side, each by one caller, and a store that
\* answers.
SpecTwo == InitTwo /\ [][NextTwo]_vars

\* Configurations for a stream of requests that arrive a refill period apart,
\* so that the bucket has a token for each: rates below SWCLimit / SWCWindow
\* (RefillRate * SWCLimit > SWCWindow), and one rate equal to it.
StreamConfigs == {<<1, 3, 2, 4>>, <<2, 5, 2, 4>>, <<1, 3, 3, 6>>, <<1, 3, 3, 7>>,
                  <<2, 2, 4, 7>>, <<1, 2, 2, 4>>}

\* The state after construction; the stream starts at any offset in an epoch.
InitStream ==
    \E c \in StreamConfigs :
        /\ BucketCapacity = c[1]
        /\ RefillRate = c[2]
        /\ SWCLimit = c[3]
        /\ SWCWindow = c[4]
        /\ maxCalls = StreamCalls
        /\ maxTicks = StreamCalls - 1
        /\ clock \in c[4]..(2 * c[4] - 1)
        /\ store = <<>>
        /\ call = [p \in Procs |-> Idle]
        /\ hist = [i \in Ids |-> <<>>]
        /\ started = [i \in Ids |-> 0]
        /\ ticks = 0
        /\ faults = 0
        /\ drainedAt = [i \in Ids |-> -1]
        /\ adaptive = NewAdaptiveLimiter(BaseRPS)

\* One client sends a request every RefillRate seconds: the next request
\* begins once the wait after the last one is over.
NextStream ==
    \/ /\ call[1].pc = "idle" => \E identifier \in Ids : started[identifier] = ticks
       /\ Step(1)
    \/ /\ \E identifier \in Ids : started[identifier] = ticks + 1
       /\ Wait(RefillRate)

\* Sequential requests at a constant rate and a store that answers.
SpecStream == InitStream /\ [][NextStream]_vars

\* Configurations for requests spread over several epochs: a window of an
\* hour, and one shorter than the minute added to it for the expiration.
EpochConfigs == {<<2, 1, 3, 3600>>, <<2, 1, 3, 4>>}

InitEpochs == \E c \in EpochConfigs : InitWith(c, c[1] + EpochCalls, EpochTicks)

NextEpochs ==
    \/ Step(1)
    \/ \E d \in {1, WindowGrace, SWCWindow} : Wait(d)

\* One client that sends its requests one after the other and waits between
\* them for a second, a minute or an epoch; a store that answers.
SpecEpochs == InitEpochs /\ [][NextEpochs]_vars

\* Configurations for a full previous epoch: a burst of five fills its
\* counter; the windows are five seconds and the hour of the README.
EstimateConfigs == {<<5, 5, 6, 5>>, <<5, 3600, 6, 3600>>}

InitEstimate ==
    \E c \in EstimateConfigs : InitWith(c, c[1] + EstimateCalls, EstimateTicks)

NextEstimate ==
    \/ Step(1)
    \/ Wait(SWCWindow \div 5)

\* One client that sends its requests one after the other and waits between
\* them for fifths of the window; a store that answers.
SpecEstimate == InitEstimate /\ [][NextEstimate]_vars

\* Configurations for polling: refill periods of several seconds, and a
\* window limit that no client here reaches.
PollConfigs == {<<3, 3, 8, 3600>>, <<2, 2, 8, 3600>>}

InitPoll == \E c \in PollConfigs : InitWith(c, c[1] + PollCalls, PollTicks)

NextPoll ==
    \/ Step(1)
    \/ \E d \in {1, 2} : Wait(d)

\* One client that polls: its requests come one after the other, a second
\* or two apart or at once; a store that answers.
SpecPoll == InitPoll /\ [][NextPoll]_vars

\* Configurations for bursts: a bucket that its refills fill sooner than its
\* keys expire, one they fill just as soon, and one they fill later; a window
\* limit that no client here reaches.
BurstConfigs == {<<2, 2, 8, 4>>, <<2, 3600, 8, 4>>, <<3, 7200, 8, 4>>}

InitBurst == \E c \in BurstConfigs : InitWith(c, c[1] + BurstCalls, BurstTicks)

NextBurst ==
    \/ Step(1)
    \/ \E d \in Deltas : Wait(d)

\* One client that sends its requests one after the other and waits between
\* them for a second, a refill period or the life of the bucket keys; a
\* store that answers.
SpecBurst == InitBurst /\ [][NextBurst]_vars

\* The bucket records of an identifier that another writer of the store has
\* left behind: a token count and a last refill time, one of them or both not
\* a number.
MalformedBuckets(i, t) ==
    {s \in [{bucketKeyOf(i), lastRefillKeyOf(i)} ->
               [val : (0..BucketCapacity) \cup {t, NotNumeric},
                exp : {t + BucketTTL}]] :
        /\ s[bucketKeyOf(i)].val \in (0..BucketCapacity) \cup {NotNumeric}
        /\ s[lastRefillKeyOf(i)].val \in {t, NotNumeric}
        /\ NotNumeric \in {s[bucketKeyOf(i)].val, s[lastRefillKeyOf(i)].val}}

\* The state after construction, the store holding malformed bucket records
\* of the identifiers.
InitMalformed ==
    \E c \in SmallConfigs :
        /\ BucketCapacity = c[1]
        /\ RefillRate = c[2]
        /\ SWCLimit = c[3]
        /\ SWCWindow = c[4]
        /\ maxCalls = c[1] + ExtraCalls
        /\ maxTicks = FewTicks
        /\ clock \in {c[4], 2 * c[4] - 1}
        /\ \E i \in Ids : store \in MalformedBuckets(i, clock)
        /\ call = [p \in Procs |-> Idle]
        /\ hist = [i \in Ids |-> <<>>]
        /\ started = [i \in Ids |-> 0]
        /\ ticks = 0
        /\ faults = 0
        /\ drainedAt = [i \in Ids |-> -1]
        /\ adaptive = NewAdaptiveLimiter(BaseRPS)

NextMalformed ==
    \/ Step(1)
    \/ \E d \in Deltas : Tick(d)

\* One caller, a store that answers and that holds malformed bucket records
\* at the start.
SpecMalformed == InitMalformed /\ [][NextMalformed]_vars

\* The bucket records of an identifier that earlier calls have left in the
\* store: a token count within the capacity and a last refill time up to a
\* refill period back.
StoredBuckets(i, t) ==
    {s \in [{bucketKeyOf(i), lastRefillKeyOf(i)} ->
               [val : (0..BucketCapacity) \cup ((t - RefillRate)..t),
                exp : {t + BucketTTL}]] :
        /\ s[bucketKeyOf(i)].val \in 0..BucketCapacity
        /\ s[lastRefillKeyOf(i)].val \in (t - RefillRate)..t}

\* Configurations for stored bucket records: refill periods of two and of
\* three seconds.
StoredConfigs == {<<2, 3, 3, 6>>, <<1, 2, 4, 4>>}

\* The state after construction, the store holding bucket records of the
\* identifiers.
InitStored ==
    \E c \in StoredConfigs :
        /\ BucketCapacity = c[1]
        /\ RefillRate = c[2]
        /\ SWCLimit = c[3]
        /\ SWCWindow = c[4]
        /\ maxCalls = StoredCalls
        /\ maxTicks = FewTicks
        /\ clock \in {c[4], 2 * c[4] - 1}
        /\ \E i \in Ids : store \in StoredBuckets(i, clock)
        /\ call = [p \in Procs |-> Idle]
        /\ hist = [i \in Ids |-> <<>>]
        /\ started = [i \in Ids |-> 0]
        /\ ticks = 0
        /\ faults = 0
        /\ drainedAt = [i \in Ids |-> -1]
        /\ adaptive = NewAdaptiveLimiter(BaseRPS)

NextStored ==
    \/ Step(1)
    \/ \E d \in Deltas : Tick(d)

\* One caller, a store that answers and that holds bucket records at the
\* start.
SpecStored == InitStored /\ [][NextStored]_vars

InitAdaptive == InitWith(NewLimiter, 0, 0)

NextAdaptive ==
    \/ \E healthData \in HealthInputs : MonitorTick(healthData)
    \/ \E healthData \in FailedFetches : MonitorFetchFails(healthData)

\* The adaptive limiter of main.go under its monitor, whatever the health
\* source reports.
SpecAdaptive == InitAdaptive /\ [][NextAdaptive]_vars

\* Configurations for time without an end: a refill period and a window of an
\* hour, half the life of the bucket keys.
LiveConfigs == {<<1, 3600, 2, 3600>>}

\* The clock starts at the start of an epoch.
InitLive ==
    \E c \in LiveConfigs : InitWith(c, c[1] + LiveCalls, FewTicks) /\ clock = c[4]

NextLive ==
    \/ \E p \in Procs : StepLive(p)
    \/ TickLive(RefillRate)

\* Concurrent callers that call for ever, a store that answers, and time that
\* keeps advancing: every caller takes its next step in the end, and the
\* clock advances in the end.
SpecLive ==
    /\ InitLive
    /\ [][NextLive]_vars
    /\ \A p \in Procs : WF_vars(StepLive(p))
    /\ WF_vars(TickLive(RefillRate))

\* ------------------------------------------------------------- properties

\* The calls of identifier i that have returned, and their number.
Calls(i) == hist[i]
NumCalls(i) == Len(hist[i])

\* The first n calls of i were made at one instant, the begin of the first.
Rapid(i, n) ==
    /\ NumCalls(i) >= n
    /\ \A k \in 1..n : /\ Calls(i)[k].begin = Calls(i)[1].begin
                       /\ Calls(i)[k].end = Calls(i)[1].begin

\* The first n calls of i were all allowed.
AllAllowed(i, n) == \A k \in 1..n : Calls(i)[k].ret

\* C1: starting from an identifier never seen, with SWCLimit >= BucketCapacity
\* and the clock standing still, the sequential calls 1..BucketCapacity return
\* true and every later call returns false.
C1_BurstLimit ==
    \A i \in Ids :
        (ticks = 0 /\ SWCLimit >= BucketCapacity) =>
            \A k \in 1..NumCalls(i) : Calls(i)[k].ret = (k <= BucketCapacity)

\* C1 witness: a call beyond the capacity has been denied, the ones before it
\* allowed, with no time elapsed.
C1_Witness ==
    \E i \in Ids :
        /\ ticks = 0
        /\ SWCLimit >= BucketCapacity
        /\ NumCalls(i) = BucketCapacity + 1
        /\ AllAllowed(i, BucketCapacity)
        /\ ~Calls(i)[BucketCapacity + 1].ret

\* The case of C2: BucketCapacity sequential calls at one instant t0 have all
\* been allowed, the next call began a refill period or more after t0, and
\* less than two refill periods have passed since t0.
C2_Case(i) ==
    /\ Rapid(i, BucketCapacity)
    /\ AllAllowed(i, BucketCapacity)
    /\ NumCalls(i) > BucketCapacity
    /\ Calls(i)[BucketCapacity + 1].begin >= Calls(i)[1].begin + RefillRate
    /\ clock < Calls(i)[1].begin + 2 * RefillRate

\* What C2 says of its case: the call after the wait is allowed, the one
\* after it denied.
C2_Outcome(i) ==
    /\ Calls(i)[BucketCapacity + 1].ret
    /\ NumCalls(i) > BucketCapacity + 1 => ~Calls(i)[BucketCapacity + 2].ret

C3_Case(i) ==
    /\ Rapid(i, ReadmeBurst)
    /\ NumCalls(i) = ReadmeBurst + ReadmeMore
    /\ \A k \in (ReadmeBurst + 1)..(ReadmeBurst + ReadmeMore) :
          /\ Calls(i)[k].begin = Calls(i)[1].begin + ReadmeWait
          /\ Calls(i)[k].end = Calls(i)[1].begin + ReadmeWait

C8_FullReplenishment ==
    \A p \in Procs :
        LET c == call[p] IN
        (/\ c.pc = "refillSet"
         /\ drainedAt[c.identifier] # -1
         /\ c.now - drainedAt[c.identifier] >= BucketCapacity * RefillRate)
            => c.newTokens = BucketCapacity

\* C8 witness: such a refill step has read the count 0 from the store, with
\* more than one token to give back.
C8_Witness ==
    \E p \in Procs :
        LET c == call[p] IN
        /\ c.pc = "refillSet"
        /\ BucketCapacity > 1
        /\ drainedAt[c.identifier] # -1
        /\ c.now - drainedAt[c.identifier] >= BucketCapacity * RefillRate
        /\ ~c.currentTokensCmd.nil
        /\ c.currentTokensCmd.val = 0
        /\ c.newTokens = BucketCapacity

\* The store round trips whose error Allow looks at.
Checked == {"tbGet", "tbSet", "swcGet"}

\* C4: a call one of whose checked store round trips (bucket read, bucket
\* write, window read) has failed returns true at once: the failed round trip
\* is the last it issued, it issued it once, and it issued no commit command.
C4_FailOpenNoRetry ==
    \A p \in Procs :
        LET c == call[p] IN
        c.failed # "" =>
            /\ c.failed \in Checked
            /\ c.pc = "done"
            /\ c.ret
            /\ c.trace[Len(c.trace)] = c.failed
            /\ \A k \in 1..(Len(c.trace) - 1) :
                  c.trace[k] \notin {c.failed, "decr", "incr", "expire"}

\* C4 witness: the read of the window counters has failed after the refill
\* had left a token.
C4_Witness ==
    \E p \in Procs :
        /\ call[p].failed = "swcGet"
        /\ call[p].pc = "done"
        /\ call[p].newTokens >= 1

\* C5: a call that met no store error returns true only if its refill step
\* returned a count >= 1 and its window estimate was < SWCLimit, and returns
\* false if either fails.
C5_BothChecks ==
    \A p \in Procs :
        LET c == call[p] IN
        (c.pc = "done" /\ c.failed = "") =>
            /\ c.ret => /\ c.newTokens >= 1
                        /\ c.estimatedCount < SWCLimit
                        /\ \E k \in 1..Len(c.trace) : c.trace[k] = "swcGet"
            /\ (c.newTokens < 1 \/ c.estimatedCount >= SWCLimit) => ~c.ret

\* C5 witness: a call has been allowed with the estimate one below the limit
\* and a count read from the store.
C5_Witness ==
    \E p \in Procs :
        LET c == call[p] IN
        /\ c.pc = "done"
        /\ c.failed = ""
        /\ c.ret
        /\ ~c.currentTokensCmd.nil
        /\ c.estimatedCount = SWCLimit - 1
        /\ c.estimatedCount > 0

\* C6: the persisted token count is never negative, here while the clock
\* stands still, so that no key expires under a call.
C6_TokensNonNegative ==
    \A i \in Ids : ticks = 0 => \A v \in TokensOf(i) : v >= 0

\* C7: under any interleaving and any elapsed time the persisted token count
\* never exceeds BucketCapacity.
C7_Clamp == \A i \in Ids : \A v \in TokensOf(i) : v <= BucketCapacity

\* C7 witness: a refill has read a count from the store, found more periods
\* elapsed than the bucket has room for, and persisted the capacity.
C7_Witness ==
    \E p \in Procs :
        LET c == call[p] IN
        /\ c.pc = "swcNow"
        /\ ~c.currentTokensCmd.nil
        /\ ~c.lastRefillTimeCmd.nil
        /\ c.currentTokensCmd.val
              + TokensToAdd(c.now, c.lastRefillTimeCmd.val) > BucketCapacity
        /\ TokensOf(c.identifier) = {BucketCapacity}

\* Step of C9: the step by which a call of p returns false.
Denies(p) == call[p].pc # "done" /\ call'[p].pc = "done" /\ ~call'[p].ret

\* C9: a call that returns false has issued no Decr, Incr or Expire.  Denied
\* by the burst check, it has issued only the refill's read and write and its
\* last step changes the store by the refill's write alone; denied by the
\* window check, its last step leaves the store as it is, with the token
\* count the refill persisted.
C9_DeniedCommitsNothing ==
    [][\A p \in Procs :
        Denies(p) =>
            LET c == call'[p] IN
            \/ /\ c.newTokens < 1
               /\ c.trace = <<"tbGet", "tbSet">>
               /\ store' = RefillWritten(store, c.identifier, c.newTokens,
                                         c.newLastRefillTime, clock)
            \/ /\ c.newTokens >= 1
               /\ c.trace = <<"tbGet", "tbSet", "swcGet">>
               /\ store' = store
               /\ TokensOf(c.identifier) \subseteq {c.newTokens}]_vars

\* C9 witness: a call has been denied by the window check, the token count in
\* the store being the one its refill persisted.
C9_Witness ==
    \E p \in Procs :
        LET c == call[p] IN
        /\ c.pc = "done"
        /\ ~c.ret
        /\ c.newTokens >= 1
        /\ TokensOf(c.identifier) = {c.newTokens}

\* Number of calls of i that returned true.
Allowed(i) == Cardinality({k \in 1..NumCalls(i) : Calls(i)[k].ret})

\* C10: with at most NumProcs calls of an identifier in flight and the clock
\* standing still, the calls that return true exceed BucketCapacity by at most
\* NumProcs.
C10_BoundedOverAdmission ==
    \A i \in Ids : ticks = 0 => Allowed(i) <= BucketCapacity + NumProcs

\* A refill has read its pair of replies and not yet used it.
HasReadPair(p) == call[p].pc = "refillNow"

\* C11: the read pair of a refill is never torn.  While the clock stands
\* still no key expires, and every refill write creates the token count and
\* the last refill time together, so a pair read at one instant has both
\* records missing or both present: no call reads a token count from before
\* another call's refill write with a last refill time from after it.
C11_NoTornRead ==
    \A p \in Procs :
        (ticks = 0 /\ HasReadPair(p)) =>
            call[p].currentTokensCmd.nil = call[p].lastRefillTimeCmd.nil

\* A call has just been allowed.
AllowedNow == \E p \in Procs : call[p].pc = "done" /\ call[p].ret

\* A call has just been denied by the window check.
WindowDeniedNow ==
    \E p \in Procs :
        call[p].pc = "done" /\ ~call[p].ret /\ HasToken(call[p].newTokens)

View(s, i) == [k \in {x \in DOMAIN s : x[2] = i} |-> s[k]]

\* The identifier of the call of which caller p takes a step.
Stepping(p) ==
    IF call[p].pc = "idle" THEN call'[p].identifier ELSE call[p].identifier

\* C13: identifier independence.  A step of a call on one identifier leaves
\* the records of every other identifier in the store, its history and its
\* calls in flight as they are; and, each identifier being called by one
\* caller, the outcomes of an identifier are those it has alone, whatever
\* the calls on the other: while the clock stands still and the window limit
\* is not below the capacity, its calls 1..BucketCapacity are allowed and
\* the later ones denied.
C13_Independence ==
    [][/\ \A p \in Procs :
            call'[p] # call[p] =>
                \A j \in TwoIds \ {Stepping(p)} :
                    /\ View(store', j) = View(store, j)
                    /\ hist'[j] = hist[j]
                    /\ started'[j] = started[j]
                    /\ \A q \in Procs :
                          call[q].identifier = j => call'[q] = call[q]
       /\ \A i \in TwoIds :
            (ticks' = 0 /\ SWCLimit >= BucketCapacity) =>
                \A k \in 1..Len(hist'[i]) :
                    hist'[i][k].ret = (k <= BucketCapacity)]_vars

\* C13 witness: with no time elapsed, one identifier has spent its burst and
\* been denied while a call on the other, begun after calls of the first had
\* returned, is between its Decr and its Incr.
C13_Witness ==
    /\ ticks = 0
    /\ Len(hist["u1"]) = BucketCapacity + 1
    /\ ~hist["u1"][BucketCapacity + 1].ret
    /\ Len(hist["u2"]) >= 1
    /\ call[2].pc = "incr"
    /\ call[2].identifier = "u2"

\* The call record has the estimate of the window check.
HasEstimate(c) == \E k \in 1..Len(c.trace) : c.trace[k] = "swcGet"

\* C14: no boundary artifact.  In a stream of sequential requests of one
\* identifier at a constant rate below SWCLimit / SWCWindow, begun at any
\* offset in an epoch and lasting over several epochs, the estimate of every
\* call is below SWCLimit: no call is denied by the window check.
C14_NoBoundaryArtifact ==
    RefillRate * SWCLimit > SWCWindow =>
        \A p \in Procs :
            HasEstimate(call[p]) => call[p].estimatedCount < SWCLimit

\* C14 witness: a stream below the limit rate has crossed two epoch
\* boundaries or more, and a call of it, the counter of the previous epoch
\* being at work in its estimate, is allowed with the estimate one below the
\* limit.
C14_Witness ==
    \E p \in Procs :
        LET c == call[p] IN
        /\ RefillRate * SWCLimit > SWCWindow
        /\ c.pc = "done"
        /\ c.ret
        /\ Len(hist[c.identifier]) >= 1
        /\ c.now >= hist[c.identifier][1].begin + 2 * SWCWindow
        /\ c.estimatedCount = SWCLimit - 1
        /\ c.estimatedCount
              > Get(store, Key(c.identifier, c.now, "swc_count")).val - 1

\* The epochs of which identifier i has a window counter in the store.
WindowEpochs(i) ==
    {k[3] : k \in {x \in DOMAIN store : x[1] = "swc_count" /\ x[2] = i}}

\* The start of the current epoch.
CurrentEpoch == Truncate(clock, SWCWindow)

Quiet == \A p \in Procs : call[p].pc = "idle"

\* C16: idle state is reclaimed.  Whatever calls have been made, also calls
\* whose commit commands failed one by one, once they have returned every
\* record of the identifier in the store has an expiration, so that the
\* store drops it in the end.
C16_EveryRecordExpires ==
    Quiet => \A k \in DOMAIN store : store[k].exp # NoTTL

\* The reply is one of a record to be taken as missing: no record, or a
\* string that is not a number.
AsMissing(reply) == reply.nil \/ reply.val = NotNumeric

\* C17: malformed state equals missing state.  The refill step takes a
\* bucket record that is not a number as it takes a missing one: the token
\* count as BucketCapacity, the last refill time as now; its results are those
\* computed from these.
C17_MalformedAsMissing ==
    \A p \in Procs :
        LET c == call[p]
            currentTokens == IF AsMissing(c.currentTokensCmd)
                             THEN BucketCapacity ELSE c.currentTokensCmd.val
            lastRefillTime == IF AsMissing(c.lastRefillTimeCmd)
                              THEN c.now ELSE c.lastRefillTimeCmd.val
            tokensToAdd == TokensToAdd(c.now, lastRefillTime)
        IN  c.pc = "refillSet" =>
                /\ c.newTokens = ClampTokens(currentTokens, tokensToAdd)
                /\ c.newLastRefillTime =
                       NewLastRefillTime(lastRefillTime, tokensToAdd)

\* x lies between lo and hi.
Between(x, lo, hi) == ~IsNaN(x) /\ ~FloatLess(x, lo) /\ ~FloatLess(hi, x)

\* C18: the adaptive rate stays in range.  After any ticks of the monitor
\* with any health data the factor applied lies between 0.1 and 1.0 and the
\* rate of the limiter, BaseLimit times the factor, between 0.1 * BaseLimit
\* and BaseLimit.
C18_RateInRange ==
    /\ Between(adaptive.factor, MinFactor, MaxFactor)
    /\ adaptive.limit = FloatMul(adaptive.BaseLimit, adaptive.factor)
    /\ Between(adaptive.limit, FloatMul(adaptive.BaseLimit, MinFactor),
               adaptive.BaseLimit)

\* The count the README's formula takes for a window counter: the stored
\* value, 0 for a missing counter.
StoredCount(key) == IF Get(store, key).nil THEN 0 ELSE Get(store, key).val

\* floor(previousCount * overlap) + currentCount of the README, with
\* overlap = 1 - (now - start of the epoch of now) / SWCWindow, taken in
\* exact arithmetic on the counters of identifier at time now.
FormulaEstimate(identifier, now) ==
    ((StoredCount(Key(identifier, now - SWCWindow, "swc_count"))
          * (SWCWindow - (now - Truncate(now, SWCWindow)))) \div SWCWindow)
        + StoredCount(Key(identifier, now, "swc_count"))

\* C19: window estimate formula.  For every time now and every pair of
\* stored counts, the estimate that Allow compares with SWCLimit equals
\* floor(previousCount * overlap) + currentCount, where overlap =
\* 1 - (now - start of the current epoch) / SWCWindow, the counts are the
\* counters of the epoch of now and of the epoch before it, and a missing
\* counter counts as 0.
C19_EstimateFormula ==
    [][\A p \in Procs :
          WindowGet(p) =>
              call'[p].estimatedCount
                  = FormulaEstimate(call[p].identifier, call[p].now)]_vars

\* Among the first n calls of history h, those that took a token.
TokensTaken(h, n) == Cardinality({k \in 1..n : h[k].ret})

\* floor((t - t0) / RefillRate) for the time t of call k of history h, t0
\* being the time of its first call, which created the state.
Credited(h, k) == (h[k].begin - h[1].begin) \div RefillRate

\* No refill of history h has hit the clamp: the tokens left before each
\* call and the periods elapsed until it do not exceed the capacity.
NoClamp(h) == \A k \in 1..Len(h) : Credited(h, k) <= TokensTaken(h, k - 1)

\* C20: no refill drift under polling.  For sequential calls on one
\* identifier whose state was created at t0, as long as the clamp at the
\* capacity is not hit, the tokens credited by all refills up to a call at
\* time t are floor((t - t0) / RefillRate), whatever the number and the
\* timing of the calls in between: the stored count is the capacity, less
\* the tokens taken, plus that number; the stored refill time is t0 plus that
\* number of whole periods, and 0 <= t - refill time < RefillRate.
C20_NoRefillDrift ==
    \A i \in Ids :
        LET h == hist[i]
            n == Len(h)
        IN  ((\A p \in Procs : call[p].pc = "idle") /\ n >= 1 /\ NoClamp(h)) =>
                /\ lastRefillKeyOf(i) \in DOMAIN store
                /\ bucketKeyOf(i) \in DOMAIN store
                /\ store[lastRefillKeyOf(i)].val
                       = h[1].begin + Credited(h, n) * RefillRate
                /\ store[bucketKeyOf(i)].val
                       = BucketCapacity - TokensTaken(h, n) + Credited(h, n)
                /\ h[n].begin - store[lastRefillKeyOf(i)].val \in 0..(RefillRate - 1)

\* C20 witness: three calls or more without the clamp, two periods or more
\* credited, and a call in between that came part of a period after a
\* refill it was credited, its leftover time counting for the next refill.
C20_Witness ==
    \E i \in Ids :
        LET h == hist[i]
            n == Len(h)
        IN  /\ \A p \in Procs : call[p].pc = "idle"
            /\ n >= 3
            /\ NoClamp(h)
            /\ Credited(h, n) >= 2
            /\ \E k \in 2..(n - 1) :
                   /\ Credited(h, k) >= 1
                   /\ (h[k].begin - h[1].begin) % RefillRate # 0
                   /\ Credited(h, n) > Credited(h, k)
                   /\ h[n].begin - h[k].begin < RefillRate

\* The call record has read a bucket state: both keys were in the store, the
\* count is within the capacity and less than a refill period has elapsed
\* since the last refill time.
ReadWithinPeriod(c) ==
    /\ ~c.currentTokensCmd.nil
    /\ ~c.lastRefillTimeCmd.nil
    /\ c.currentTokensCmd.val \in 0..BucketCapacity
    /\ c.now - c.lastRefillTimeCmd.val \in 0..(RefillRate - 1)

\* The bucket records of the call record's identifier hold what it read.
HoldsWhatItRead(s, c) ==
    /\ bucketKeyOf(c.identifier) \in DOMAIN s
    /\ lastRefillKeyOf(c.identifier) \in DOMAIN s
    /\ s[bucketKeyOf(c.identifier)].val = c.currentTokensCmd.val
    /\ s[lastRefillKeyOf(c.identifier)].val = c.lastRefillTimeCmd.val

\* C21: the refill is idempotent at zero elapsed time.  For any stored bucket
\* state (tokens, last refill time) with 0 <= tokens <= BucketCapacity, a
\* refill at a time now with 0 <= now - last refill time < RefillRate writes
\* to the store the token count and the last refill time it read.
C21_RefillIdempotent ==
    [][\A p \in Procs :
          (RefillSet(p) /\ ReadWithinPeriod(call[p])) =>
              HoldsWhatItRead(store', call[p])]_vars

\* C21 witness: a refill has written back a count below the capacity and a
\* last refill time part of a period old, as it read them.
C21_Witness ==
    \E p \in Procs :
        LET c == call[p] IN
        /\ c.pc = "swcNow"
        /\ ReadWithinPeriod(c)
        /\ c.currentTokensCmd.val < BucketCapacity
        /\ c.now - c.lastRefillTimeCmd.val >= 1
        /\ HoldsWhatItRead(store, c)

\* The window counters in store s.
WindowKeys(s) == {k \in DOMAIN s : k[1] = "swc_count"}

\* The count of key k in store s, 0 for a missing key.
CountOf(s, k) == IF k \in DOMAIN s THEN s[k].val ELSE 0

\* The call record has incremented its window counter.
Incremented(c) == \E k \in 1..Len(c.trace) : c.trace[k] = "incr"

\* The calls in flight on identifier i that have committed with a decision
\* time in the epoch that starts at e.
CommittingNow(i, e) ==
    {p \in Procs : /\ call[p].identifier = i
                   /\ Incremented(call[p])
                   /\ Truncate(call[p].now, SWCWindow) = e}

\* The calls of identifier i that have committed in the epoch that starts at
\* e: at least those that returned true and lay within the epoch from their
\* beginning to their end, at most those that returned true and whose time
\* touches the epoch; both with the committed calls still in flight.
CommitsAtLeast(i, e) ==
    Cardinality({k \in 1..Len(hist[i]) :
                    /\ hist[i][k].ret
                    /\ Truncate(hist[i][k].begin, SWCWindow) = e
                    /\ Truncate(hist[i][k].end, SWCWindow) = e})
        + Cardinality(CommittingNow(i, e))
CommitsAtMost(i, e) ==
    Cardinality({k \in 1..Len(hist[i]) :
                    /\ hist[i][k].ret
                    /\ Truncate(hist[i][k].begin, SWCWindow) <= e
                    /\ Truncate(hist[i][k].end, SWCWindow) >= e})
        + Cardinality(CommittingNow(i, e))

\* Every window counter in the store holds the number of calls of its
\* identifier that committed in its epoch, and no less than 0.
CountsAreCommits ==
    \A k \in WindowKeys(store) :
        /\ store[k].val >= 0
        /\ store[k].val >= CommitsAtLeast(k[2], k[3])
        /\ store[k].val <= CommitsAtMost(k[2], k[3])

\* C22 as stated: commit accounting.  Under any interleaving the counter of
\* (identifier, epoch), while it exists, equals the number of Allow calls of
\* that identifier that committed in that epoch, and is never negative.
C22_AsStated == CountsAreCommits

\* Every call so far has come, or can still come, to its increment while the
\* counter of the epoch it began in cannot have expired: less than
\* SWCWindow + WindowGrace after the start of that epoch.
Timely ==
    /\ \A i \in Ids : \A k \in 1..Len(hist[i]) :
          hist[i][k].end
              < Truncate(hist[i][k].begin, SWCWindow) + SWCWindow + WindowGrace
    /\ \A p \in Procs :
          call[p].pc # "idle" =>
              clock < Truncate(call[p].begin, SWCWindow) + SWCWindow + WindowGrace

\* A step leaves the count of every window counter as it is, but for the
\* increment of a commit, which adds 1 to the counter of the epoch of the
\* call's decision time and to no other, and for the expiration of counters.
OnlyIncrements ==
    \A k \in WindowKeys(store) \cup WindowKeys(store') :
        \/ CountOf(store', k) = CountOf(store, k)
        \/ k \notin DOMAIN store' /\ clock' > clock
        \/ \E p \in Procs :
              /\ Incr(p)
              /\ k = Key(call[p].identifier, call[p].now, "swc_count")
              /\ CountOf(store', k) = CountOf(store, k) + 1

\* The decrement of a commit takes exactly 1 from the token count.
CommitTakesOne ==
    \A p \in Procs :
        Decr(p) =>
            CountOf(store', bucketKeyOf(call[p].identifier))
                = CountOf(store, bucketKeyOf(call[p].identifier)) - 1

\* C22 as amended: window counters are changed only by the increment of a
\* commit; each committing call adds exactly 1 to the counter of the epoch of
\* its decision time and takes exactly 1 from the token count; and while every
\* call comes to its increment before the counter of its epoch can expire,
\* the counter of (identifier, epoch), while it exists, equals the number of
\* calls of that identifier that committed in that epoch and is never
\* negative, under any interleaving.
C22_CommitAccounting ==
    /\ [][OnlyIncrements /\ CommitTakesOne]_vars
    /\ [](Timely => CountsAreCommits)

\* C22 witness: two racing calls of an identifier have both committed in one
\* epoch, each in time, and its counter holds 2.
C22_Witness ==
    /\ Timely
    /\ \E k \in WindowKeys(store) :
          /\ store[k].val = 2
          /\ CommitsAtLeast(k[2], k[3]) = 2
          /\ Cardinality(CommittingNow(k[2], k[3])) = 2

MissingMetric(data) ==
    Float(0, 1) \in {data.CPUUtilization, data.P95LatencyMs, data.ErrorRate}

\* C24: missing metric data is conservative.  When a health metric has no
\* data and is therefore reported as 0, the factor calculated from the data
\* and applied reduces the rate: it is below 1.0, and the rate below
\* BaseLimit.
C24_MissingIsConservative ==
    (~adaptive.fetchErr /\ MissingMetric(adaptive.healthData)) =>
        /\ FloatLess(adaptive.factor, MaxFactor)
        /\ FloatLess(adaptive.limit, adaptive.BaseLimit)

\* C25: per-epoch cap, sequential case.  When the Allow calls of an
\* identifier do not overlap in time and no store call fails, the window
\* counter of every epoch of that identifier never exceeds SWCLimit: at most
\* SWCLimit requests are admitted per epoch.
C25_EpochCap == \A k \in WindowKeys(store) : store[k].val <= SWCLimit

\* C25 witness: the counter of an epoch has reached SWCLimit and a later
\* call with its decision time in that epoch has been denied by the window
\* check.
C25_Witness ==
    \E p \in Procs :
        LET c == call[p]
            k == Key(c.identifier, c.now, "swc_count")
        IN  /\ c.pc = "done"
            /\ ~c.ret
            /\ HasEstimate(c)
            /\ k \in DOMAIN store
            /\ store[k].val = SWCLimit

\* The calls j..k of history h that returned true.
AllowedBetween(h, j, k) == Cardinality({m \in j..k : h[m].ret})

\* capacity + floor(T / RefillRate) + 1 for the time T from the beginning of
\* call j to the end of call k of history h.
BurstBound(h, j, k) ==
    BucketCapacity + ((h[k].end - h[j].begin) \div RefillRate) + 1

\* Between the calls j..k of history h the bucket keys have not expired: no
\* call came BucketTTL or longer after the one before it.
NoIdleExpiry(h, j, k) ==
    \A m \in j..(k - 1) : h[m + 1].begin - h[m].end < BucketTTL

\* C26 as stated: worst-case burst, sequential case.  When the Allow calls
\* of an identifier do not overlap in time and no store call fails, the number
\* of calls that return true within any time interval of length T is at most
\* capacity + floor(T / RefillRate) + 1.
C26_AsStated ==
    \A i \in Ids : \A j, k \in 1..Len(hist[i]) :
        j <= k => AllowedBetween(hist[i], j, k) <= BurstBound(hist[i], j, k)

\* C26 as amended: the bound holds for every interval in which the bucket
\* keys do not expire, and for every interval when the refills fill the
\* bucket within the life of the keys (capacity * RefillRate <= BucketTTL).
C26_WorstCaseBurst ==
    \A i \in Ids : \A j, k \in 1..Len(hist[i]) :
        (/\ j <= k
         /\ \/ BucketCapacity * RefillRate <= BucketTTL
            \/ NoIdleExpiry(hist[i], j, k)) =>
            AllowedBetween(hist[i], j, k) <= BurstBound(hist[i], j, k)

\* C26 witness: more calls than the capacity have returned true in an
\* interval shorter than a refill period, as many as the bound allows, the
\* bucket keys not having expired.
C26_Witness ==
    \E i \in Ids : \E j, k \in 1..Len(hist[i]) :
        /\ j <= k
        /\ NoIdleExpiry(hist[i], j, k)
        /\ hist[i][k].end - hist[i][j].begin < RefillRate
        /\ AllowedBetween(hist[i], j, k) = BucketCapacity + 1
        /\ AllowedBetween(hist[i], j, k) = BurstBound(hist[i], j, k)

\* The call record holds a refill: refillBucket has computed it.
HasRefill(c) == c.pc \notin {"idle", "refillGet", "refillNow"}

\* C27: the refill never takes tokens away.  With all callers reading one
\* clock that never goes back, under any interleaving of concurrent Allow
\* calls the stored last refill time of an identifier is never later than the
\* current time, so every refill computes tokensToAdd >= 0 (it reads a last
\* refill time that is not later than its now) and writes a token count that
\* is not below the count it read, up to the clamp at the capacity.
C27_RefillNeverTakes ==
    /\ \A i \in Ids :
          lastRefillKeyOf(i) \in DOMAIN store =>
              store[lastRefillKeyOf(i)].val <= clock
    /\ \A p \in Procs :
          HasRefill(call[p]) =>
              /\ call[p].newLastRefillTime <= call[p].now
              /\ ~call[p].lastRefillTimeCmd.nil =>
                    /\ call[p].lastRefillTimeCmd.val <= call[p].now
                    /\ TokensToAdd(call[p].now,
                                   call[p].lastRefillTimeCmd.val) >= 0
              /\ ~call[p].currentTokensCmd.nil =>
                    \/ call[p].newTokens >= call[p].currentTokensCmd.val
                    \/ call[p].newTokens = BucketCapacity

\* C27 witness: two calls race on an identifier; one has computed its refill
\* from a last refill time that the other wrote while it was in flight, time
\* has passed since, and it credits a token.
C27_Witness ==
    \E p, q \in Procs :
        /\ p # q
        /\ HasRefill(call[p])
        /\ call[q].pc \notin {"idle", "refillGet", "refillNow", "refillSet"}
        /\ call[q].identifier = call[p].identifier
        /\ ~call[p].lastRefillTimeCmd.nil
        /\ ~call[p].currentTokensCmd.nil
        /\ call[p].lastRefillTimeCmd.val = call[q].newLastRefillTime
        /\ call[p].begin <= call[q].now
        /\ TokensToAdd(call[p].now, call[p].lastRefillTimeCmd.val) >= 1
        /\ call[p].newTokens > call[p].currentTokensCmd.val

====
